---------------------------- MODULE Spec2Model ----------------------------
(***************************************************************************)
(* Model of the feedback pipeline of src/generate_feedback_1.py (the error *)
(* classifier, the message normalizer, the code excerpt, the student       *)
(* history store and the batch run of generate_feedback) and of the        *)
(* delivery of src/canvas_connection.py.                                   *)
(*                                                                         *)
(* The specifications share the module's variables:                        *)
(*   SpecClassify   classify_errors_with_bank applied to bounded inputs;   *)
(*   SpecCondense   condense applied to bounded inputs;                    *)
(*   SpecExcerpt    read_student_code_excerpt applied to bounded inputs;   *)
(*   SpecSummarize  summarize_history applied to bounded inputs;           *)
(*   SpecDelivery   main of canvas_connection.py over a feedback file;     *)
(*   Spec           batch runs of generate_feedback over a file system;    *)
(*   SpecRerun      complete runs over the same input, responses parsable. *)
(* Each specification holds the others' variables at their idle value.     *)
(***************************************************************************)
EXTENDS Integers, Sequences, FiniteSets, TLC

VARIABLES
    \* ---- classify_errors_with_bank (SpecClassify)
    raw_messages,   \* the argument raw_messages: a list of messages
    bank,           \* the argument bank: a dict, kept as its list of items
    codes,          \* the local list codes (one code per message)
    out,            \* the returned list
    cl_pc,          \* "call" before the call, "returned" after it
    \* ---- generate_feedback (Spec)
    name_map,       \* submission id -> full name ("" when the roster has none)
    student_totals, \* the in-memory history store: full name -> StudentRecord
    results_out,    \* the staged FeedbackRecords
    msg,            \* the local msg of generate_feedback (Unbound before its first assignment)
    idx,            \* position of the loop in SubmissionIds
    pc,             \* "loop", "save_open", "save_write", "save_replace", "merge",
                    \* "done", "raised" (uncaught exception) or "crashed" (process killed)
    exc,            \* the uncaught exception when pc = "raised"
    fs,             \* the files: path -> content
    run,            \* number of the current run of generate_feedback
    history_block,  \* the local history_block of the loop (line 362)
    overlap_codes,  \* the local overlap_codes of the loop (line 362)
    \* ---- history variables (read by no action)
    resp,           \* submission id -> the response received in this run
    calls,          \* full name -> record_student_submission calls of this run
    prev_store_file,\* the store file as it was when this run started
    saves,          \* completed save_student_errors calls of this run
    llm_calls,      \* the submissions of the client.responses.create calls of
                    \* this run, in the order of the calls
    \* ---- summarize_history (SpecSummarize)
    sh_student,     \* the argument student
    sh_now_codes,   \* the argument now_codes
    sh_top_k,       \* the argument top_k
    sh_window,      \* the argument window
    sh_result,      \* the returned pair
    sh_pc,          \* "call" before the call, "returned" after it
    \* ---- condense (SpecCondense)
    cd_msg,         \* the argument msg
    cd_limit,       \* the argument limit
    cd_out,         \* the returned string
    cd_pc,          \* "call" before the call, "returned" after it
    \* ---- read_student_code_excerpt (SpecExcerpt)
    ex_sub_dir,     \* the argument sub_dir
    ex_limit,       \* the argument limit
    ex_out,         \* the returned string
    ex_pc,          \* "call" before the call, "returned" after it
    \* ---- canvas_connection.py (SpecDelivery)
    dv_env,         \* the environment variable DRY_RUN: a string, or not set
    DRY_RUN,        \* the global DRY_RUN of canvas_connection.py (line 13)
    dv_rows,        \* the local rows of main: the rows of feedback.json
    dv_i,           \* position of the loop of main in rows
    dv_sent,        \* the local sent of main
    dv_requests,    \* the requests sent to the platform, in order
    dv_trace,       \* history: what the search returned for each row handled
    dv_pc           \* "import", "main", "loop" or "done"

classifyVars == <<raw_messages, bank, codes, out, cl_pc>>

batchVars == <<name_map, student_totals, results_out, msg, idx, pc, exc, fs, run,
               history_block, overlap_codes,
               resp, calls, prev_store_file, saves, llm_calls>>

summarizeVars == <<sh_student, sh_now_codes, sh_top_k, sh_window, sh_result, sh_pc>>

condenseVars == <<cd_msg, cd_limit, cd_out, cd_pc>>

excerptVars == <<ex_sub_dir, ex_limit, ex_out, ex_pc>>

deliveryVars == <<dv_env, DRY_RUN, dv_rows, dv_i, dv_sent, dv_requests, dv_trace, dv_pc>>

vars == <<classifyVars, batchVars, summarizeVars,
         condenseVars,
         excerptVars,
         deliveryVars>>

\* the variables that the actions of one specification leave alone
exceptClassify == <<batchVars, summarizeVars,
    condenseVars,
    excerptVars,
    deliveryVars>>

exceptBatch == <<classifyVars, summarizeVars,
    condenseVars,
    excerptVars,
    deliveryVars>>

exceptSummarize == <<classifyVars, batchVars,
    condenseVars,
    excerptVars,
    deliveryVars>>

exceptCondense == <<classifyVars, batchVars, summarizeVars,
    excerptVars,
    deliveryVars>>

exceptExcerpt == <<classifyVars, batchVars, summarizeVars, condenseVars,
    deliveryVars>>

exceptDelivery == <<classifyVars, batchVars, summarizeVars, condenseVars, excerptVars>>

(***************************************************************************)
(* Bounds of the classifier's inputs.                                      *)
(***************************************************************************)
MaxMsgs == 3        \* longest message list
MaxPats == 2        \* longest pattern list of a bank entry

(***************************************************************************)
(* Bounds of the batch runs.                                               *)
(***************************************************************************)
MaxRuns == 2        \* runs of generate_feedback in one behaviour
NChunks == 2        \* writes the operating system splits a file's content into

\* MAX_CASES_PER_SUB, line 21
MAX_CASES_PER_SUB == 50

(***************************************************************************)
(* Sequence helpers.                                                       *)
(***************************************************************************)
SeqsUpTo(S, n) == UNION {[1..k -> S] : k \in 0..n}

Range(s) == {s[i] : i \in DOMAIN s}

NoDuplicates(s) == \A i, j \in DOMAIN s : i # j => s[i] # s[j]

IsPrefix(s, t) == Len(s) <= Len(t) /\ \A i \in DOMAIN s : s[i] = t[i]

\* Python's s[:n] for n >= 0
Take(s, n) == IF Len(s) <= n THEN s ELSE SubSeq(s, 1, n)

(***************************************************************************)
(* Messages and patterns.  A message is an opaque condensed failure text.  *)
(* A pattern is what re.search(pat, msg, re.I | re.S) does with it: it is  *)
(* either rejected by the regex compiler (re.error, for every message) or  *)
(* it is a valid expression that matches a set of messages.                *)
(***************************************************************************)
Msgs == {"m1", "m2"}

InvalidPattern == [valid |-> FALSE, matches |-> {}]

Patterns == { InvalidPattern,
              [valid |-> TRUE, matches |-> {"m1"}],
              [valid |-> TRUE, matches |-> {"m1", "m2"}] }

\* re.search(pat, i, re.I | re.S): a match object, None, or re.error raised
re_search(pat, text) ==
    IF ~pat.valid THEN "re.error"
    ELSE IF text \in pat.matches THEN "match" ELSE "None"

(***************************************************************************)
(* classify_errors_with_bank, lines 121-150.                               *)
(***************************************************************************)
\* A mutant: a pattern that raises re.error ends the scan of its entry.
RECURSIVE ScanPatterns_breakOnError(_, _)
ScanPatterns_breakOnError(pats, text) ==
    IF pats = <<>> THEN FALSE
    ELSE LET r == re_search(Head(pats), text)
         IN  IF r = "match" THEN TRUE
             ELSE IF r = "re.error" THEN FALSE
             ELSE ScanPatterns_breakOnError(Tail(pats), text)

\* for pat in entry.get("regex", []): try ... except re.error: continue
\* TRUE iff the loop ended with matched = True
RECURSIVE ScanPatterns(_, _)
ScanPatterns(pats, text) ==
    IF pats = <<>> THEN FALSE
    ELSE LET r == re_search(Head(pats), text)
         IN  IF r = "match" THEN TRUE
             ELSE ScanPatterns(Tail(pats), text)

\* for code, entry in bank.items(): ...; the code appended for one message
RECURSIVE ScanBank(_, _)
ScanBank(items, text) ==
    IF items = <<>> THEN "UNCLASSIFIED"
    ELSE LET e == Head(items)
         IN  IF e.code = "UNCLASSIFIED" THEN ScanBank(Tail(items), text)
             ELSE IF ScanPatterns(e.regex, text) THEN e.code
             ELSE ScanBank(Tail(items), text)

\* for i in raw_messages: the list codes after the loop
RECURSIVE MessageCodes(_, _)
MessageCodes(msgs, items) ==
    IF msgs = <<>> THEN <<>>
    ELSE <<ScanBank(items, Head(msgs))>> \o MessageCodes(Tail(msgs), items)

\* seen, out = set(), []; for c in codes: if c not in seen: ...
RECURSIVE RemoveDuplicates(_, _, _)
RemoveDuplicates(cs, seen, acc) ==
    IF cs = <<>> THEN acc
    ELSE IF Head(cs) \in seen THEN RemoveDuplicates(Tail(cs), seen, acc)
    ELSE RemoveDuplicates(Tail(cs), seen \cup {Head(cs)}, Append(acc, Head(cs)))

\* A mutant: return out, without the fallback
classify_noFallback(msgs, items) ==
    RemoveDuplicates(MessageCodes(msgs, items), {}, <<>>)

classify_errors_with_bank(msgs, items) ==
    LET o == RemoveDuplicates(MessageCodes(msgs, items), {}, <<>>)
    IN  IF o = <<>> THEN <<"UNCLASSIFIED">> ELSE o

(***************************************************************************)
(* The banks the classifier is applied to: every ordering of every subset  *)
(* of the codes, the reserved entry among them, each entry with a pattern  *)
(* list of at most MaxPats patterns.  The reserved entry carries a pattern *)
(* that matches every message, so that skipping it is observable.          *)
(***************************************************************************)
BankCodes == {"FLOAT_ON_NONE", "LOOP_BAD_RANGE"}

PatternLists == SeqsUpTo(Patterns, MaxPats)

ReservedEntry ==
    [code |-> "UNCLASSIFIED", regex |-> <<[valid |-> TRUE, matches |-> Msgs]>>]

Entries == [code : BankCodes, regex : PatternLists] \cup {ReservedEntry}

Banks == {b \in SeqsUpTo(Entries, Cardinality(BankCodes) + 1) :
             \A i, j \in DOMAIN b : i # j => b[i].code # b[j].code}

ClassifyIdle ==
    /\ raw_messages = <<>>
    /\ bank = <<>>
    /\ codes = <<>>
    /\ out = <<>>
    /\ cl_pc = "idle"

BatchIdle ==
    /\ name_map = <<>>
    /\ student_totals = <<>>
    /\ results_out = <<>>
    /\ msg = "<unbound>"
    /\ idx = 0
    /\ pc = "idle"
    /\ exc = "none"
    /\ fs = <<>>
    /\ run = 0
    /\ resp = <<>>
    /\ calls = <<>>
    /\ prev_store_file = <<>>
    /\ saves = 0
    /\ history_block = <<>>
    /\ overlap_codes = <<>>
    /\ llm_calls = <<>>

SummarizeIdle ==
    /\ sh_student = <<>>
    /\ sh_now_codes = <<>>
    /\ sh_top_k = 0
    /\ sh_window = 0
    /\ sh_result = <<>>
    /\ sh_pc = "idle"

CondenseIdle ==
    /\ cd_msg = <<>>
    /\ cd_limit = 0
    /\ cd_out = <<>>
    /\ cd_pc = "idle"

ExcerptIdle ==
    /\ ex_sub_dir = <<>>
    /\ ex_limit = 0
    /\ ex_out = <<>>
    /\ ex_pc = "idle"

DeliveryIdle ==
    /\ dv_env = "<unset>"
    /\ DRY_RUN = FALSE
    /\ dv_rows = <<>>
    /\ dv_i = 0
    /\ dv_sent = 0
    /\ dv_requests = <<>>
    /\ dv_trace = <<>>
    /\ dv_pc = "idle"

InitClassify ==
    /\ raw_messages \in SeqsUpTo(Msgs, MaxMsgs)
    /\ bank \in Banks
    /\ codes = <<>>
    /\ out = <<>>
    /\ cl_pc = "call"
    /\ BatchIdle
    /\ SummarizeIdle
    /\ CondenseIdle
    /\ ExcerptIdle
    /\ DeliveryIdle

ClassifyCall ==
    /\ cl_pc = "call"
    /\ codes' = MessageCodes(raw_messages, bank)
    /\ out' = classify_errors_with_bank(raw_messages, bank)
    /\ cl_pc' = "returned"
    /\ UNCHANGED <<raw_messages, bank>>
    /\ UNCHANGED exceptClassify

NextClassify == ClassifyCall

SpecClassify == InitClassify /\ [][NextClassify]_vars

(***************************************************************************)
(* The inputs of a batch run.  outputs_by_sid is the result of             *)
(* fetch_grouped_outputs: the failing outputs of each submission, the      *)
(* submissions in the order of the query (ORDER BY submission_id).  The    *)
(* outputs are kept in their condensed form.                               *)
(***************************************************************************)
SubmissionIds == <<"s1", "s2">>

outputs_by_sid == [s \in Range(SubmissionIds) |->
                      IF s = "s1" THEN <<"m1">> ELSE <<"m2", "m1">>]

\* error_bank.json as load_error_bank returns it
error_bank ==
    << [code |-> "FLOAT_ON_NONE",
        regex |-> <<InvalidPattern, [valid |-> TRUE, matches |-> {"m1"}]>>],
       [code |-> "LOOP_BAD_RANGE",
        regex |-> <<[valid |-> TRUE, matches |-> {"m1", "m2"}]>>] >>

Names == {"Alex Kim", "Sam Lee"}

\* (meta.get("full_name") or ""): a roster name, or "" when there is none
NameChoices == Names \cup {""}

(***************************************************************************)
(* Python values.                                                          *)
(***************************************************************************)
Unbound == "<unbound>"      \* a local that no assignment has reached yet
None == "<None>"

EmptyDict == [k \in {} |-> 0]

\* d[k] = v on a dict
DictPut(d, k, v) == [x \in DOMAIN d \cup {k} |-> IF x = k THEN v ELSE d[x]]

(***************************************************************************)
(* The text-generation response, as lines 392-394 read it:                 *)
(*   unparsable  json.loads raises, or the parsed value has not the shape  *)
(*               the two .get calls need (they raise); msg is not assigned *)
(*   json        an object; message is fb_list[0]["message"] stripped, or  *)
(*               "" when "feedback" is missing or empty or has no message  *)
(***************************************************************************)
NoResponse == [kind |-> "none", message |-> ""]

Unparsable == [kind |-> "unparsable", message |-> ""]

Json(m) == [kind |-> "json", message |-> m]

Responses == {Unparsable, Json(""), Json("fb1")}

(***************************************************************************)
(* Files.  A JSON file written by json.dumps reaches the disk in NChunks   *)
(* writes; a file holding fewer is a strict prefix of the text and does    *)
(* not parse.                                                              *)
(***************************************************************************)
\* student_all_errors_path, line 18
StorePath == "student_feedback_total.json"

\* feedback_json, line 14
FeedbackPath == "feedback.json"

\* A mutant: the content is written to the target path itself
TempName_isTarget == StorePath

\* tmp.name: the NamedTemporaryFile created in the directory of the target
TempName == "tmpfile"

Paths == {StorePath, FeedbackPath, TempName}

Absent == [kind |-> "absent"]

JsonFile(data, written) == [kind |-> "json", data |-> data, written |-> written]

CompleteFile(data) == JsonFile(data, NChunks)

\* a store file holding complete JSON that is not an object
NotADict == [kind |-> "notadict"]

\* a feedback file that does not parse, or parses to something not a list
NotAList == [kind |-> "notalist"]

RowsFile(rows) == [kind |-> "rows", rows |-> rows]

(***************************************************************************)
(* load_student_errors, lines 152-163.                                     *)
(***************************************************************************)
load_student_errors(file) ==
    IF file.kind = "absent" THEN EmptyDict             \* not path.exists()
    ELSE IF file.kind = "notadict" THEN EmptyDict      \* not isinstance(data, dict)
    ELSE IF file.written < NChunks THEN EmptyDict      \* json.JSONDecodeError
    ELSE file.data

(***************************************************************************)
(* record_student_submission, lines 174-197.                               *)
(***************************************************************************)
\* A mutant: the counter is not incremented
record_noIncrement(totals, full_name, submission_id, error_codes, feedback_text) ==
    LET student == IF full_name \in DOMAIN totals THEN totals[full_name]
                   ELSE [full_name |-> full_name, feedback_count |-> 0,
                         history |-> <<>>]
        entry == [submission_id |-> submission_id,
                  error_codes |-> error_codes,
                  feedback |-> IF feedback_text = None THEN "" ELSE feedback_text]
    IN  DictPut(totals, full_name,
                [student EXCEPT !.history = Append(@, entry)])

\* A mutant: the history is replaced by the new entry
record_overwriteHistory(totals, full_name, submission_id, error_codes, feedback_text) ==
    LET student == IF full_name \in DOMAIN totals THEN totals[full_name]
                   ELSE [full_name |-> full_name, feedback_count |-> 0,
                         history |-> <<>>]
        entry == [submission_id |-> submission_id,
                  error_codes |-> error_codes,
                  feedback |-> IF feedback_text = None THEN "" ELSE feedback_text]
    IN  DictPut(totals, full_name,
                [student EXCEPT !.feedback_count = @ + 1,
                                !.history = <<entry>>])

\* A mutant: the entry replaces the entries of the same submission
record_keyedBySubmission(totals, full_name, submission_id, error_codes, feedback_text) ==
    LET student == IF full_name \in DOMAIN totals THEN totals[full_name]
                   ELSE [full_name |-> full_name, feedback_count |-> 0,
                         history |-> <<>>]
        entry == [submission_id |-> submission_id,
                  error_codes |-> error_codes,
                  feedback |-> IF feedback_text = None THEN "" ELSE feedback_text]
        IsOther(h) == h.submission_id # submission_id
        history == Append(SelectSeq(student.history, IsOther), entry)
    IN  DictPut(totals, full_name,
                [student EXCEPT !.feedback_count = Len(history),
                                !.history = history])

record_student_submission(totals, full_name, submission_id, error_codes, feedback_text) ==
    LET \* totals.setdefault(full_name, {...})
        student == IF full_name \in DOMAIN totals THEN totals[full_name]
                   ELSE [full_name |-> full_name, feedback_count |-> 0,
                         history |-> <<>>]
        entry == [submission_id |-> submission_id,
                  error_codes |-> error_codes,
                  \* feedback_text or ""
                  feedback |-> IF feedback_text = None THEN "" ELSE feedback_text]
    IN  DictPut(totals, full_name,
                [student EXCEPT !.feedback_count = @ + 1,
                                !.history = Append(@, entry)])

(***************************************************************************)
(* condense, lines 32-36.  A string is the sequence of its characters.     *)
(***************************************************************************)
MaxMsgLen == 5      \* longest message handed to condense

NL == "\n"

Backslash == "\\"

\* the characters of the messages: a letter, a blank, a line break, a backslash
Chars == {"a", " ", NL, Backslash}

\* msg.splitlines(): the text between the line breaks, no line after a final
\* line break
RECURSIVE splitlines(_)
splitlines(text) ==
    IF text = <<>> THEN <<>>
    ELSE IF NL \notin Range(text) THEN <<text>>
    ELSE LET k == CHOOSE i \in DOMAIN text :
                     text[i] = NL /\ \A j \in 1..(i - 1) : text[j] # NL
         IN  <<SubSeq(text, 1, k - 1)>> \o splitlines(SubSeq(text, k + 1, Len(text)))

\* line.strip(): no whitespace at either end
RECURSIVE strip(_)
strip(line) ==
    IF line = <<>> THEN <<>>
    ELSE IF Head(line) \in {" ", NL} THEN strip(Tail(line))
    ELSE IF line[Len(line)] \in {" ", NL} THEN strip(SubSeq(line, 1, Len(line) - 1))
    ELSE line

\* " ".join(lines)
RECURSIVE JoinWith(_, _)
JoinWith(sep, lines) ==
    IF lines = <<>> THEN <<>>
    ELSE IF Len(lines) = 1 THEN lines[1]
    ELSE lines[1] \o sep \o JoinWith(sep, Tail(lines))

\* the stripped lines that are not empty, line 35
RECURSIVE StrippedLines(_)
StrippedLines(lines) ==
    IF lines = <<>> THEN <<>>
    ELSE IF strip(Head(lines)) = <<>> THEN StrippedLines(Tail(lines))
    ELSE <<strip(Head(lines))>> \o StrippedLines(Tail(lines))

\* one.replace("\\\\", "\\"): each pair of backslashes, from the left, becomes
\* one backslash
RECURSIVE ReplaceBackslashes(_)
ReplaceBackslashes(text) ==
    IF Len(text) < 2 THEN text
    ELSE IF text[1] = Backslash /\ text[2] = Backslash
         THEN <<Backslash>> \o ReplaceBackslashes(SubSeq(text, 3, Len(text)))
    ELSE <<Head(text)>> \o ReplaceBackslashes(Tail(text))

\* A mutant: the whole string
SliceTo_whole(text, limit) == text

\* text[:limit]: the first limit characters; for a negative limit all but
\* the last -limit characters
SliceTo(text, limit) ==
    IF limit >= 0 THEN Take(text, limit)
    ELSE IF Len(text) + limit <= 0 THEN <<>>
    ELSE SubSeq(text, 1, Len(text) + limit)

\* the argument msg: None, or a string
NoneMsg == [none |-> TRUE, chars |-> <<>>]

StrMsg(text) == [none |-> FALSE, chars |-> text]

condense(m, limit) ==
    IF m.none \/ m.chars = <<>> THEN <<>>        \* if not msg: return ""
    ELSE LET one == JoinWith(<<" ">>, StrippedLines(splitlines(m.chars)))
         IN  SliceTo(ReplaceBackslashes(one), limit)

(***************************************************************************)
(* condense applied to bounded arguments.                                  *)
(***************************************************************************)
CondenseMsgs == {NoneMsg} \cup {StrMsg(t) : t \in SeqsUpTo(Chars, MaxMsgLen)}

\* limit: negative, zero, shorter than the message, longer than it
Limits == (0 - 2)..(MaxMsgLen + 1)

InitCondense ==
    /\ cd_msg \in CondenseMsgs
    /\ cd_limit \in Limits
    /\ cd_out = <<>>
    /\ cd_pc = "call"
    /\ ClassifyIdle
    /\ BatchIdle
    /\ SummarizeIdle
    /\ ExcerptIdle
    /\ DeliveryIdle

CondenseCall ==
    /\ cd_pc = "call"
    /\ cd_out' = condense(cd_msg, cd_limit)
    /\ cd_pc' = "returned"
    /\ UNCHANGED <<cd_msg, cd_limit>>
    /\ UNCHANGED exceptCondense

NextCondense == CondenseCall

SpecCondense == InitCondense /\ [][NextCondense]_vars

(***************************************************************************)
(* read_student_code_excerpt, lines 68-86.                                 *)
(***************************************************************************)
MaxCodeLen == 1         \* longest content of a .py file
MaxExcerptLimit == 30   \* largest limit

\* the .py files a directory may hold, as sorted() orders them
PyFiles == <<"a.py", "b.py">>

\* py.name as characters
NameChars(f) == IF f = "a.py" THEN <<"a", ".", "p", "y">> ELSE <<"b", ".", "p", "y">>

\* f"# FILE: {py.name}\n", line 75
Header(f) == <<"#", " ", "F", "I", "L", "E", ":", " ">> \o NameChars(f) \o <<NL>>

\* a file that read_text cannot read, lines 76-79
Unreadable == [readable |-> FALSE, code |-> <<>>]

Readable(text) == [readable |-> TRUE, code |-> text]

\* the characters of the file contents
CodeChars == {"x", " "}

FileContents == {Unreadable} \cup {Readable(t) : t \in SeqsUpTo(CodeChars, MaxCodeLen)}

\* sub_dir: None, a path that does not exist, or a directory of .py files
NoDir == [kind |-> "none"]

MissingDir == [kind |-> "missing"]

Directory(files) == [kind |-> "dir", files |-> files]

Directories ==
    {NoDir, MissingDir}
    \cup {Directory(fc) : fc \in UNION {[S -> FileContents] : S \in SUBSET Range(PyFiles)}}

\* sorted(sub_dir.glob("*.py")), line 73
RECURSIVE SortedFiles(_, _)
SortedFiles(order, files) ==
    IF order = <<>> THEN <<>>
    ELSE IF Head(order) \in DOMAIN files
         THEN <<Head(order)>> \o SortedFiles(Tail(order), files)
    ELSE SortedFiles(Tail(order), files)

\* the loop of lines 74-85 from the files py_files on
RECURSIVE ExcerptPieces(_, _, _, _, _)
ExcerptPieces(py_files, files, limit, pieces, total) ==
    IF py_files = <<>> THEN pieces
    ELSE LET py == Head(py_files)
             code == IF files[py].readable THEN files[py].code ELSE <<>>
             whole == Header(py) \o code
             chunk == IF total + Len(whole) > limit
                      THEN Take(whole, IF limit - total > 0 THEN limit - total ELSE 0)
                      ELSE whole
         IN  IF total + Len(chunk) >= limit
             THEN Append(pieces, chunk)                     \* break
             ELSE ExcerptPieces(Tail(py_files), files, limit,
                                Append(pieces, chunk), total + Len(chunk))

read_student_code_excerpt(sub_dir, limit) ==
    IF sub_dir.kind # "dir" THEN <<>>        \* not sub_dir or not sub_dir.exists()
    ELSE strip(JoinWith(<<NL>>,
               ExcerptPieces(SortedFiles(PyFiles, sub_dir.files), sub_dir.files,
                             limit, <<>>, 0)))

(***************************************************************************)
(* read_student_code_excerpt applied to bounded arguments.                 *)
(***************************************************************************)
InitExcerpt ==
    /\ ex_sub_dir \in Directories
    /\ ex_limit \in 0..MaxExcerptLimit
    /\ ex_out = <<>>
    /\ ex_pc = "call"
    /\ ClassifyIdle
    /\ BatchIdle
    /\ SummarizeIdle
    /\ CondenseIdle
    /\ DeliveryIdle

ExcerptCall ==
    /\ ex_pc = "call"
    /\ ex_out' = read_student_code_excerpt(ex_sub_dir, ex_limit)
    /\ ex_pc' = "returned"
    /\ UNCHANGED <<ex_sub_dir, ex_limit>>
    /\ UNCHANGED exceptExcerpt

NextExcerpt == ExcerptCall

SpecExcerpt == InitExcerpt /\ [][NextExcerpt]_vars

(***************************************************************************)
(* canvas_connection.py: the delivery of the feedback rows.                *)
(***************************************************************************)
MaxRows == 3        \* longest feedback.json

\* os.getenv: the variable is not set
UnsetEnv == "<unset>"

EnvValues == {UnsetEnv, "", "1"}

\* os.getenv(name, default)
getenv(value, default) == IF value = UnsetEnv THEN default ELSE value

\* line 13: os.getenv("DRY_RUN", "0") == ""
DryRunSetting(value) == getenv(value, "0") = ""

\* (row.get("full_name") or ""), (row.get("feedback") or ""): strings as
\* sequences of characters; a missing key or None counts as ""
RowNames == {<<>>, <<" ">>, <<"a", " ">>}

RowFeedbacks == {<<>>, <<"x">>}

DeliveryRows == [full_name : RowNames, feedback : RowFeedbacks]

\* the users that the platform knows: two named "a", one of them without an
\* id, and one whose name starts with "a"
NoId == "<None>"

PlatformUsers ==
    { [id |-> "u1", name |-> <<"a">>],
      [id |-> NoId, name |-> <<"a">>],
      [id |-> "u3", name |-> <<"a", "b">>] }

\* A mutant: the first exact match is taken when there are several
lookup_user_anyExact(users, full_name) ==
    LET exacts == {u \in users : u.name = full_name}
    IN  IF exacts # {}
        THEN (CHOOSE u \in exacts : u.id # NoId \/ \A v \in exacts : v.id = NoId).id
        ELSE NoId

\* lookup_user, lines 34-45, on the users that the search returned
lookup_user(users, full_name) ==
    LET exacts == {u \in users : u.name = full_name}
    IN  IF Cardinality(exacts) = 1 THEN (CHOOSE u \in exacts : TRUE).id
        ELSE NoId

Request(kind, row, user) == [kind |-> kind, row |-> row, user |-> user]

\* what happened to a row: skipped at line 94 (searched = FALSE), or the
\* search failed (a status >= 400), or it returned users
RowSkipped == [searched |-> FALSE, failed |-> FALSE, users |-> {}, counted |-> FALSE]

SearchFailed == [searched |-> TRUE, failed |-> TRUE, users |-> {}, counted |-> FALSE]

Searched(users, counted) ==
    [searched |-> TRUE, failed |-> FALSE, users |-> users, counted |-> counted]

InitDelivery ==
    /\ dv_env \in EnvValues
    /\ DRY_RUN = FALSE
    /\ dv_rows \in SeqsUpTo(DeliveryRows, MaxRows)
    /\ dv_i = 0
    /\ dv_sent = 0
    /\ dv_requests = <<>>
    /\ dv_trace = <<>>
    /\ dv_pc = "import"
    /\ ClassifyIdle
    /\ BatchIdle
    /\ SummarizeIdle
    /\ CondenseIdle
    /\ ExcerptIdle

\* the module level, lines 6-18
Import ==
    /\ dv_pc = "import"
    /\ DRY_RUN' = DryRunSetting(dv_env)
    /\ dv_pc' = "main"
    /\ UNCHANGED <<dv_env, dv_rows, dv_i, dv_sent, dv_requests, dv_trace>>
    /\ UNCHANGED exceptDelivery

\* lines 85-86
MainStart ==
    /\ dv_pc = "main"
    /\ dv_i' = 1
    /\ dv_sent' = 0
    /\ dv_pc' = "loop"
    /\ UNCHANGED <<dv_env, DRY_RUN, dv_rows, dv_requests, dv_trace>>
    /\ UNCHANGED exceptDelivery

\* one iteration of the loop, lines 88-114
DeliverRow ==
    /\ dv_pc = "loop"
    /\ dv_i <= Len(dv_rows)
    /\ LET student_name == strip(dv_rows[dv_i].full_name)
           feedback == strip(dv_rows[dv_i].feedback)
       IN  IF student_name = <<>> \/ feedback = <<>>
           THEN \* line 94
                /\ dv_trace' = Append(dv_trace, RowSkipped)
                /\ UNCHANGED <<dv_requests, dv_sent>>
           ELSE \/ \* line 98: the search answers with a status >= 400
                   /\ dv_requests' = Append(dv_requests, Request("search", dv_i, NoId))
                   /\ dv_trace' = Append(dv_trace, SearchFailed)
                   /\ UNCHANGED dv_sent
                \/ \E users \in SUBSET PlatformUsers :
                      LET user_id == lookup_user(users, student_name)
                          search == Append(dv_requests, Request("search", dv_i, NoId))
                          comment == Append(search, Request("comment", dv_i, user_id))
                      IN  IF user_id = NoId
                          THEN \* line 100
                               /\ dv_requests' = search
                               /\ dv_trace' = Append(dv_trace, Searched(users, FALSE))
                               /\ UNCHANGED dv_sent
                          ELSE IF DRY_RUN
                          THEN \* lines 103-105, no request at line 52
                               /\ dv_requests' = search
                               /\ dv_trace' = Append(dv_trace, Searched(users, TRUE))
                               /\ dv_sent' = dv_sent + 1
                          ELSE \/ \* line 55: the PUT answers with a status >= 400
                                  /\ dv_requests' = comment
                                  /\ dv_trace' = Append(dv_trace, Searched(users, FALSE))
                                  /\ UNCHANGED dv_sent
                               \/ \* lines 103-110; send_canvas_message keeps
                                  \* its own errors
                                  /\ dv_requests' =
                                        Append(comment, Request("message", dv_i, user_id))
                                  /\ dv_trace' = Append(dv_trace, Searched(users, TRUE))
                                  /\ dv_sent' = dv_sent + 1
    /\ dv_i' = dv_i + 1
    /\ UNCHANGED <<dv_env, DRY_RUN, dv_rows, dv_pc>>
    /\ UNCHANGED exceptDelivery

\* lines 116-118
MainEnd ==
    /\ dv_pc = "loop"
    /\ dv_i > Len(dv_rows)
    /\ dv_pc' = "done"
    /\ UNCHANGED <<dv_env, DRY_RUN, dv_rows, dv_i, dv_sent, dv_requests, dv_trace>>
    /\ UNCHANGED exceptDelivery

NextDelivery ==
    \/ Import
    \/ MainStart
    \/ DeliverRow
    \/ MainEnd

SpecDelivery == InitDelivery /\ [][NextDelivery]_vars

(***************************************************************************)
(* summarize_history, lines 227-264.                                       *)
(***************************************************************************)
MaxHist == 2        \* longest history of a student
MaxCodes == 2       \* longest list of error codes

\* the error codes of the model in the order of sorted(): by code point
CodeOrder == <<"FLOAT_ON_NONE", "LOOP_BAD_RANGE", "UNCLASSIFIED">>

\* HUMANIZE.get(c, c), lines 214-225
Humanize(c) ==
    IF c = "FLOAT_ON_NONE" THEN "calling float() on None"
    ELSE IF c = "LOOP_BAD_RANGE" THEN "range() bounds/off-by-one"
    ELSE c

\* sorted(list(S)) for a set S of codes
RECURSIVE SortedFrom(_, _)
SortedFrom(order, S) ==
    IF order = <<>> THEN <<>>
    ELSE IF Head(order) \in S THEN <<Head(order)>> \o SortedFrom(Tail(order), S)
    ELSE SortedFrom(Tail(order), S)

Sorted(S) == SortedFrom(CodeOrder, S)

\* hist[-window:]: the last window entries when window > 0, the whole list
\* when window = 0 (hist[0:]), hist[k:] with k = -window when window < 0
LastEntries(hist, window) ==
    LET n == Len(hist)
        start == IF window > 0
                 THEN (IF window >= n THEN 0 ELSE n - window)
                 ELSE (IF 0 - window >= n THEN n ELSE 0 - window)
    IN  SubSeq(hist, start + 1, n)

\* the codes that the loop of lines 238-239 feeds to life.update, in order
RECURSIVE LifeUpdates(_)
LifeUpdates(hist) ==
    IF hist = <<>> THEN <<>>
    ELSE Head(hist).error_codes \o LifeUpdates(Tail(hist))

\* A mutant: a code counts once per history entry
LifeCount_oncePerEntry(hist, c) ==
    Cardinality({i \in DOMAIN hist : c \in Range(hist[i].error_codes)})

\* life[c]
LifeCount(hist, c) ==
    LET updates == LifeUpdates(hist)
    IN  Cardinality({i \in DOMAIN updates : updates[i] = c})

\* recent[c], lines 242-244
RecentCount(hist, window, c) ==
    LET last == LastEntries(hist, window)
    IN  Cardinality({i \in DOMAIN last : c \in Range(last[i].error_codes)})

\* A mutant: one recent entry makes a code frequent
Frequent_recentOnce(hist, window) ==
    {c \in Range(LifeUpdates(hist)) :
        LifeCount(hist, c) >= 2 \/ RecentCount(hist, window, c) >= 1}

\* frequent, line 247
Frequent(hist, window) ==
    {c \in Range(LifeUpdates(hist)) :
        LifeCount(hist, c) >= 2 \/ RecentCount(hist, window, c) >= 2}

\* sorted(items, key=count, reverse=True): the key of the highest count that
\* comes first in keys goes first
RECURSIVE ByCountDescending(_, _)
ByCountDescending(keys, hist) ==
    IF keys = <<>> THEN <<>>
    ELSE LET best == CHOOSE i \in DOMAIN keys :
                        /\ \A j \in DOMAIN keys :
                              LifeCount(hist, keys[j]) <= LifeCount(hist, keys[i])
                        /\ \A j \in 1..(i - 1) :
                              LifeCount(hist, keys[j]) < LifeCount(hist, keys[i])
             rest == [j \in 1..(Len(keys) - 1) |->
                         IF j < best THEN keys[j] ELSE keys[j + 1]]
         IN  <<keys[best]>> \o ByCountDescending(rest, hist)

\* life.most_common(top_k), line 252: the keys of life are in the order of
\* their first update; a top_k below 1 gives the empty list
most_common(hist, top_k) ==
    LET keys == RemoveDuplicates(LifeUpdates(hist), {}, <<>>)
        ordered == ByCountDescending(keys, hist)
    IN  IF top_k < 1 THEN <<>> ELSE Take(ordered, top_k)

\* the first element of the pair returned at line 233
NoPriorFeedback == [text |-> "(no prior feedback)"]

\* not student or not student.get("history")
NoHistory(student) ==
    \/ DOMAIN student = {}
    \/ "history" \notin DOMAIN student
    \/ student.history = <<>>

summarize_history(student, now_codes, top_k, window) ==
    IF NoHistory(student)
    THEN [history_block |-> NoPriorFeedback, overlap_codes |-> <<>>]
    ELSE LET hist == student.history
             overlap == Sorted(Range(now_codes) \cap Frequent(hist, window))
             common == most_common(hist, top_k)
         IN  [history_block |->
                  [text |-> "summary",
                   total |-> Len(hist),
                   top |-> [i \in DOMAIN common |->
                               <<common[i], LifeCount(hist, common[i])>>],
                   current |-> now_codes,
                   overlap |-> overlap,
                   human |-> [i \in DOMAIN overlap |-> Humanize(overlap[i])]],
              overlap_codes |-> overlap]

(***************************************************************************)
(* summarize_history applied to bounded arguments.                         *)
(***************************************************************************)
CodeLists == SeqsUpTo(BankCodes, MaxCodes)

HistoryEntries ==
    {[submission_id |-> "s1", error_codes |-> cs, feedback |-> "fb0"] :
        cs \in CodeLists}

\* a student record, the empty dict of student_totals.get(full_name, {}),
\* or a record without the key "history"
Students ==
    {[full_name |-> "Alex Kim", feedback_count |-> Len(h), history |-> h] :
        h \in SeqsUpTo(HistoryEntries, MaxHist)}
    \cup {EmptyDict, [full_name |-> "Alex Kim", feedback_count |-> 0]}

\* window: negative, zero, shorter than the history, longer than it
Windows == (0 - 1)..(MaxHist + 1)

\* top_k: one, and the 3 of line 365
TopKs == {1, 3}

\* now_codes: the lists of at most as many codes as there are codes
NowCodeLists == SeqsUpTo(BankCodes, Cardinality(BankCodes))

InitSummarize ==
    /\ sh_student \in Students
    /\ sh_now_codes \in NowCodeLists
    /\ sh_top_k \in TopKs
    /\ sh_window \in Windows
    /\ sh_result = <<>>
    /\ sh_pc = "call"
    /\ ClassifyIdle
    /\ BatchIdle
    /\ CondenseIdle
    /\ ExcerptIdle
    /\ DeliveryIdle

SummarizeCall ==
    /\ sh_pc = "call"
    /\ sh_result' = summarize_history(sh_student, sh_now_codes, sh_top_k, sh_window)
    /\ sh_pc' = "returned"
    /\ UNCHANGED <<sh_student, sh_now_codes, sh_top_k, sh_window>>
    /\ UNCHANGED exceptSummarize

NextSummarize == SummarizeCall

SpecSummarize == InitSummarize /\ [][NextSummarize]_vars

(***************************************************************************)
(* generate_feedback, lines 333-455.                                       *)
(***************************************************************************)
\* a store that an earlier run saved
SavedStore ==
    [n \in {"Alex Kim"} |->
        [full_name |-> n, feedback_count |-> 1,
         history |-> << [submission_id |-> "s0",
                         error_codes |-> <<"LOOP_BAD_RANGE">>,
                         feedback |-> "fb0"] >>]]

InitialStoreFiles ==
    {Absent, NotADict, JsonFile(EmptyDict, 0), CompleteFile(SavedStore)}

FeedbackRow(sid, name, text) ==
    [submission_id |-> sid, full_name |-> name, feedback |-> text]

\* a row of the existing feedback file without the key "submission_id"
MalformedRow == [full_name |-> "Sam Lee", feedback |-> "fb0"]

InitialFeedbackFiles ==
    { Absent, NotAList,
      RowsFile(<<FeedbackRow("s0", "Alex Kim", "fb0"),
                 FeedbackRow("s1", "Alex Kim", "fb0")>>),
      RowsFile(<<FeedbackRow("s0", "Alex Kim", "fb0"), MalformedRow>>) }

\* history_block before the first iteration assigns it; nothing reads it
\* then (overlap_codes is kept as the empty list)
UnboundBlock == [text |-> Unbound]

\* the start of a run, lines 334-347: the store is loaded, nothing is staged
RunStarts ==
    /\ student_totals' = load_student_errors(fs[StorePath])
    /\ results_out' = <<>>
    /\ msg' = Unbound
    /\ idx' = 1
    /\ pc' = "loop"
    /\ exc' = "none"
    /\ resp' = [s \in Range(SubmissionIds) |-> NoResponse]
    /\ calls' = [n \in NameChoices |-> 0]
    /\ prev_store_file' = fs[StorePath]
    /\ saves' = 0
    /\ history_block' = UnboundBlock
    /\ overlap_codes' = <<>>
    /\ llm_calls' = <<>>

Init ==
    /\ ClassifyIdle
    /\ SummarizeIdle
    /\ CondenseIdle
    /\ ExcerptIdle
    /\ DeliveryIdle
    /\ name_map \in [Range(SubmissionIds) -> NameChoices]
    /\ \E store \in InitialStoreFiles, feedback \in InitialFeedbackFiles :
          fs = [p \in Paths |-> IF p = StorePath THEN store
                                ELSE IF p = FeedbackPath THEN feedback
                                ELSE Absent]
    /\ student_totals = load_student_errors(fs[StorePath])
    /\ results_out = <<>>
    /\ msg = Unbound
    /\ idx = 1
    /\ pc = "loop"
    /\ exc = "none"
    /\ run = 1
    /\ resp = [s \in Range(SubmissionIds) |-> NoResponse]
    /\ calls = [n \in NameChoices |-> 0]
    /\ prev_store_file = fs[StorePath]
    /\ saves = 0
    /\ history_block = UnboundBlock
    /\ overlap_codes = <<>>
    /\ llm_calls = <<>>

\* the for loop goes on, or ends and line 434 is next
AfterIteration(i) == IF i > Len(SubmissionIds) THEN "save_open" ELSE "loop"

\* A mutant: the profile is read from the store as the run loaded it
StudentProfile_asLoaded(totals, full_name) ==
    IF full_name \in DOMAIN load_student_errors(prev_store_file)
    THEN load_student_errors(prev_store_file)[full_name]
    ELSE EmptyDict

\* student_totals.get(full_name, {}), line 360
StudentProfile(totals, full_name) ==
    IF full_name \in DOMAIN totals THEN totals[full_name] ELSE EmptyDict

\* top_k and window of the call at lines 362-367
TOP_K == 3

WINDOW == 5

\* One iteration of the loop, lines 349-432, with a response r of the set
\* responses.  Lines 360-389 build the prompt from error_codes and the
\* stored history and call the service.  full_name is the roster name of the
\* submission at line 356 and again at line 396.
Iteration(responses) ==
    /\ pc = "loop"
    /\ idx <= Len(SubmissionIds)
    /\ \E r \in responses :
        LET submission_id == SubmissionIds[idx]
            condensed == Take(outputs_by_sid[submission_id], MAX_CASES_PER_SUB)
            error_codes == classify_errors_with_bank(condensed, error_bank)
            full_name == name_map[submission_id]
            \* line 360
            student_profile == StudentProfile(student_totals, full_name)
            \* lines 362-367
            summary == summarize_history(student_profile, error_codes,
                                         TOP_K, WINDOW)
        IN  /\ history_block' = summary.history_block
            /\ overlap_codes' = summary.overlap_codes
            \* lines 382-389: the call that returns r
            /\ llm_calls' = Append(llm_calls, submission_id)
            /\ resp' = [resp EXCEPT ![submission_id] = r]
            /\ IF r.kind = "json"
               THEN \* lines 392-414
                    /\ msg' = r.message
                    /\ student_totals' =
                          record_student_submission(student_totals, full_name,
                              submission_id, error_codes,
                              IF r.message # "" THEN r.message ELSE None)
                    /\ calls' = [calls EXCEPT ![full_name] = @ + 1]
                    /\ results_out' =
                          IF r.message # ""
                          THEN Append(results_out,
                                      FeedbackRow(submission_id, full_name, r.message))
                          ELSE results_out
                    /\ idx' = idx + 1
                    /\ pc' = AfterIteration(idx + 1)
                    /\ UNCHANGED exc
               ELSE IF msg = Unbound
               THEN \* line 420 reads msg before any assignment: the handler
                    \* raises UnboundLocalError, which nothing catches
                    /\ pc' = "raised"
                    /\ exc' = "UnboundLocalError"
                    /\ UNCHANGED <<msg, student_totals, calls, results_out, idx>>
               ELSE \* lines 416-429: the first except clause, msg as an
                    \* earlier iteration left it
                    /\ results_out' =
                          IF msg # ""
                          THEN Append(results_out,
                                      FeedbackRow(submission_id, full_name, msg))
                          ELSE results_out
                    /\ idx' = idx + 1
                    /\ pc' = AfterIteration(idx + 1)
                    /\ UNCHANGED <<msg, student_totals, calls, exc>>
    /\ UNCHANGED <<name_map, fs, run, prev_store_file, saves>>
    /\ UNCHANGED exceptBatch

\* an iteration with any response of the text-generation service
ProcessSubmission == Iteration(Responses)

(***************************************************************************)
(* save_student_errors, lines 165-171, called at line 434.                 *)
(***************************************************************************)
\* lines 167-168: the temporary file is created, empty
Save_OpenTemp ==
    /\ pc = "save_open"
    /\ fs' = [fs EXCEPT ![TempName] = JsonFile(student_totals, 0)]
    /\ pc' = "save_write"
    /\ UNCHANGED <<history_block, overlap_codes, llm_calls,
                   name_map, student_totals, results_out, msg, idx, exc, run,
                   resp, calls, prev_store_file, saves>>
    /\ UNCHANGED exceptBatch

\* line 169 and the close of the with block: the text reaches the file
Save_Write ==
    /\ pc = "save_write"
    /\ fs[TempName].kind = "json"
    /\ fs[TempName].written < NChunks
    /\ fs' = [fs EXCEPT ![TempName].written = @ + 1]
    /\ pc' = IF fs[TempName].written + 1 = NChunks THEN "save_replace"
             ELSE "save_write"
    /\ UNCHANGED <<history_block, overlap_codes, llm_calls,
                   name_map, student_totals, results_out, msg, idx, exc, run,
                   resp, calls, prev_store_file, saves>>
    /\ UNCHANGED exceptBatch

\* A mutant: the temporary file is left where it is
Save_Replace_noReplace ==
    /\ pc = "save_replace"
    /\ pc' = "merge"
    /\ saves' = saves + 1
    /\ UNCHANGED <<history_block, overlap_codes, llm_calls,
                   name_map, student_totals, results_out, msg, idx, exc, run,
                   resp, calls, prev_store_file, fs>>
    /\ UNCHANGED exceptBatch

\* line 171: Path(temp_name).replace(path)
Save_Replace ==
    /\ pc = "save_replace"
    /\ fs' = [p \in Paths |-> IF p = StorePath THEN fs[TempName]
                              ELSE IF p = TempName THEN Absent
                              ELSE fs[p]]
    /\ pc' = "merge"
    /\ saves' = saves + 1
    /\ UNCHANGED <<history_block, overlap_codes, llm_calls,
                   name_map, student_totals, results_out, msg, idx, exc, run,
                   resp, calls, prev_store_file>>
    /\ UNCHANGED exceptBatch

(***************************************************************************)
(* The feedback file, lines 436-455.                                       *)
(***************************************************************************)
\* lines 436-443
load_existing(file) == IF file.kind = "rows" THEN file.rows ELSE <<>>

\* A mutant: a key that the dict holds keeps its row (setdefault)
DictSetRow_keepOld(merged, row) ==
    IF \E i \in DOMAIN merged : merged[i].submission_id = row.submission_id
    THEN merged
    ELSE Append(merged, row)

\* A mutant: the rows are collected in a list, not keyed
DictSetRow_append(merged, row) == Append(merged, row)

\* merged[row["submission_id"]] = row, the dict kept as the list of its values
DictSetRow(merged, row) ==
    IF \E i \in DOMAIN merged : merged[i].submission_id = row.submission_id
    THEN [i \in DOMAIN merged |->
             IF merged[i].submission_id = row.submission_id THEN row
             ELSE merged[i]]
    ELSE Append(merged, row)

RECURSIVE MergeRows(_, _)
MergeRows(merged, rows) ==
    IF rows = <<>> THEN merged
    ELSE MergeRows(DictSetRow(merged, Head(rows)), Tail(rows))

\* lines 436-455; the write of line 454 succeeds or fails (OSError)
MergeFeedback ==
    /\ pc = "merge"
    /\ LET existing == load_existing(fs[FeedbackPath])
       IN  IF \E i \in DOMAIN existing : "submission_id" \notin DOMAIN existing[i]
           THEN \* line 448: KeyError
                /\ pc' = "raised"
                /\ exc' = "KeyError"
                /\ UNCHANGED fs
           ELSE \E written \in BOOLEAN :
                IF written
                THEN /\ fs' = [fs EXCEPT ![FeedbackPath] = RowsFile(
                               MergeRows(MergeRows(<<>>, existing), results_out))]
                     /\ pc' = "done"
                     /\ UNCHANGED exc
                ELSE /\ fs' = [fs EXCEPT ![FeedbackPath] = NotAList]
                     /\ pc' = "raised"
                     /\ exc' = "OSError"
    /\ UNCHANGED <<history_block, overlap_codes, llm_calls,
                   name_map, student_totals, results_out, msg, idx, run,
                   resp, calls, prev_store_file, saves>>
    /\ UNCHANGED exceptBatch

(***************************************************************************)
(* The process is killed, and the pipeline is run again.                   *)
(***************************************************************************)
Running == pc \in {"loop", "save_open", "save_write", "save_replace", "merge"}

Crash ==
    /\ Running
    /\ pc' = "crashed"
    /\ UNCHANGED <<history_block, overlap_codes, llm_calls,
                   name_map, student_totals, results_out, msg, idx, exc, fs, run,
                   resp, calls, prev_store_file, saves>>
    /\ UNCHANGED exceptBatch

StartRun ==
    /\ pc \in {"done", "raised", "crashed"}
    /\ run < MaxRuns
    /\ run' = run + 1
    /\ RunStarts
    /\ UNCHANGED <<name_map, fs>>
    /\ UNCHANGED exceptBatch

Next ==
    \/ ProcessSubmission
    \/ Save_OpenTemp
    \/ Save_Write
    \/ Save_Replace
    \/ MergeFeedback
    \/ Crash
    \/ StartRun

Spec == Init /\ [][Next]_vars

(***************************************************************************)
(* The pipeline run again and again over the same input, each run to its   *)
(* end, every response parsable, the first run on a new store.             *)
(***************************************************************************)
MaxReruns == 3      \* runs of generate_feedback in one behaviour

ParsableResponses == {r \in Responses : r.kind = "json"}

InitRerun ==
    /\ ClassifyIdle
    /\ SummarizeIdle
    /\ CondenseIdle
    /\ ExcerptIdle
    /\ DeliveryIdle
    /\ name_map \in [Range(SubmissionIds) -> NameChoices]
    /\ fs = [p \in Paths |-> Absent]
    /\ student_totals = load_student_errors(fs[StorePath])
    /\ results_out = <<>>
    /\ msg = Unbound
    /\ idx = 1
    /\ pc = "loop"
    /\ exc = "none"
    /\ run = 1
    /\ resp = [s \in Range(SubmissionIds) |-> NoResponse]
    /\ calls = [n \in NameChoices |-> 0]
    /\ prev_store_file = fs[StorePath]
    /\ saves = 0
    /\ history_block = UnboundBlock
    /\ overlap_codes = <<>>
    /\ llm_calls = <<>>

ProcessParsable == Iteration(ParsableResponses)

StartRerun ==
    /\ pc \in {"done", "raised"}
    /\ run < MaxReruns
    /\ run' = run + 1
    /\ RunStarts
    /\ UNCHANGED <<name_map, fs>>
    /\ UNCHANGED exceptBatch

NextRerun ==
    \/ ProcessParsable
    \/ Save_OpenTemp
    \/ Save_Write
    \/ Save_Replace
    \/ MergeFeedback
    \/ StartRerun

SpecRerun == InitRerun /\ [][NextRerun]_vars

(***************************************************************************)
(* What the classifier is to return, stated without the loops.             *)
(***************************************************************************)
\* entry k of the bank is not the reserved one and one of its patterns is a
\* valid regular expression that matches text
EntryMatches(items, k, text) ==
    /\ items[k].code # "UNCLASSIFIED"
    /\ \E p \in DOMAIN items[k].regex :
          items[k].regex[p].valid /\ text \in items[k].regex[p].matches

\* the code of the first matching entry in mapping order, else the fallback
FirstMatchCode(items, text) ==
    IF \E k \in DOMAIN items : EntryMatches(items, k, text)
    THEN LET k == CHOOSE n \in DOMAIN items :
                      /\ EntryMatches(items, n, text)
                      /\ \A l \in 1..(n - 1) : ~EntryMatches(items, l, text)
         IN  items[k].code
    ELSE "UNCLASSIFIED"

\* index of the first occurrence of c in the list s
FirstIndex(s, c) == CHOOSE i \in DOMAIN s : s[i] = c /\ \A j \in 1..(i - 1) : s[j] # c

\* C1: the list classify_errors_with_bank returns is never empty, has no
\* duplicates, holds exactly the codes recorded for the messages in the order
\* of their first occurrence, and is exactly <<"UNCLASSIFIED">> for an empty
\* message list and for a list none of whose messages matches a bank entry.
C1_ClassifyResult ==
    cl_pc = "returned" =>
        /\ Len(out) >= 1
        /\ NoDuplicates(out)
        /\ codes # <<>> => Range(out) = Range(codes)
        /\ codes # <<>> =>
              \A i, j \in DOMAIN out :
                  i < j => FirstIndex(codes, out[i]) < FirstIndex(codes, out[j])
        /\ ( \/ raw_messages = <<>>
             \/ \A m \in DOMAIN raw_messages : \A k \in DOMAIN bank :
                    ~EntryMatches(bank, k, raw_messages[m]) )
           => out = <<"UNCLASSIFIED">>

\* C1 witness: a returned list of two codes from three messages, the first
\* code recorded again for the third message
C1_Witness ==
    /\ cl_pc = "returned"
    /\ Len(raw_messages) = 3
    /\ codes[1] # codes[2]
    /\ codes[3] = codes[1]
    /\ out = <<codes[1], codes[2]>>

\* C2: the code recorded for each message is the code of the first entry of
\* the bank, the reserved entry skipped, one of whose valid patterns matches
\* the message; a pattern that raises re.error matches nothing and ends no
\* scan; with no such entry the recorded code is "UNCLASSIFIED".
C2_FirstMatchWins ==
    cl_pc = "returned" =>
        /\ Len(codes) = Len(raw_messages)
        /\ \A m \in DOMAIN raw_messages :
              codes[m] = FirstMatchCode(bank, raw_messages[m])

\* C2 witness: a message classified by the second pattern of an entry whose
\* first pattern is invalid, with a later entry and the reserved entry (placed
\* before it) matching the same message
C2_Witness ==
    /\ cl_pc = "returned"
    /\ \E m \in DOMAIN raw_messages : \E k, l, u \in DOMAIN bank :
          /\ u < k /\ k < l
          /\ bank[u].code = "UNCLASSIFIED"
          /\ Len(bank[k].regex) = 2
          /\ ~bank[k].regex[1].valid
          /\ EntryMatches(bank, k, raw_messages[m])
          /\ EntryMatches(bank, l, raw_messages[m])
          /\ codes[m] = bank[k].code

(***************************************************************************)
(* Properties of the batch run.                                            *)
(***************************************************************************)
\* the store as this run loaded it
LoadedStore == load_student_errors(prev_store_file)

HistoryOf(store, n) == IF n \in DOMAIN store THEN store[n].history ELSE <<>>

CountOf(store, n) == IF n \in DOMAIN store THEN store[n].feedback_count ELSE 0

\* every student of store a is a student of store b, with a's history a
\* prefix of b's
StoreExtends(a, b) ==
    \A n \in DOMAIN a :
        /\ n \in DOMAIN b
        /\ IsPrefix(a[n].history, b[n].history)

ErrorCodesOf(sid) ==
    classify_errors_with_bank(Take(outputs_by_sid[sid], MAX_CASES_PER_SUB), error_bank)

\* C3: a response that cannot be parsed does not abort the run: the loop goes
\* on to the next submission, whichever position the submission has.
C3_ParseFailureContained ==
    \A i \in DOMAIN SubmissionIds :
        resp[SubmissionIds[i]].kind = "unparsable" =>
            /\ idx > i
            /\ ~(pc = "raised" /\ exc = "UnboundLocalError")

\* C4: a run that ended, by returning or by an exception, has executed the
\* save of the history store exactly once, whatever the responses were.
C4_SaveOnceAfterLoop ==
    pc \in {"done", "raised"} => saves = 1

\* C5: a submission whose response was not JSON has got a history entry in
\* this run, with its classified error codes and empty feedback, and no
\* staged feedback record.
C5_UnparsableStillRecorded ==
    \A i \in DOMAIN SubmissionIds :
        LET sid == SubmissionIds[i]
            n == name_map[sid]
        IN  (resp[sid].kind = "unparsable" /\ idx > i) =>
                /\ \E k \in DOMAIN HistoryOf(student_totals, n) :
                      /\ k > Len(HistoryOf(LoadedStore, n))
                      /\ student_totals[n].history[k] =
                            [submission_id |-> sid,
                             error_codes |-> ErrorCodesOf(sid),
                             feedback |-> ""]
                /\ \A k \in DOMAIN results_out : results_out[k].submission_id # sid

\* C6: every staged record holds the non-empty message parsed from the
\* response to its own submission.
C6_StagedFromOwnResponse ==
    \A k \in DOMAIN results_out :
        LET r == results_out[k]
        IN  /\ resp[r.submission_id].kind = "json"
            /\ resp[r.submission_id].message # ""
            /\ r.feedback = resp[r.submission_id].message

\* C7: at every step of a run, a crash included, the store file holds the
\* complete content it had when the run started or the complete new content,
\* and the temporary file is complete when it is moved onto the store file.
C7_SaveAtomic ==
    /\ \/ fs[StorePath] = prev_store_file
       \/ fs[StorePath] = CompleteFile(student_totals)
    /\ pc = "save_replace" => fs[TempName] = CompleteFile(student_totals)

\* C7 witness: the process was killed while the temporary file was partly
\* written, with new history in memory; the store file is the saved one
C7_Witness ==
    /\ pc = "crashed"
    /\ fs[TempName].kind = "json"
    /\ fs[TempName].written > 0
    /\ fs[TempName].written < NChunks
    /\ fs[TempName].data = student_totals
    /\ student_totals # SavedStore
    /\ fs[StorePath] = CompleteFile(SavedStore)

\* C8: every record of the store has feedback_count = len(history); after N
\* calls of record_student_submission for a student in this run both are N
\* more than in the store as loaded, 0 and 0 for a student absent from it.
C8_CountMatchesHistory ==
    pc # "idle" =>
    \A n \in NameChoices :
        /\ n \in DOMAIN student_totals =>
              student_totals[n].feedback_count = Len(student_totals[n].history)
        /\ CountOf(student_totals, n) = CountOf(LoadedStore, n) + calls[n]
        /\ Len(HistoryOf(student_totals, n)) = Len(HistoryOf(LoadedStore, n)) + calls[n]
        /\ (n \notin DOMAIN student_totals) => calls[n] = 0

\* C8 witness: two calls in one run for a student with one stored entry
C8_Witness ==
    /\ pc # "idle"
    /\ calls["Alex Kim"] = 2
    /\ CountOf(LoadedStore, "Alex Kim") = 1
    /\ student_totals["Alex Kim"].feedback_count = 3
    /\ Len(student_totals["Alex Kim"].history) = 3

\* C9: no step takes a student or a history entry out of the store file or,
\* within a run, out of the in-memory store: histories only grow at their
\* end, and a step that changes the in-memory store changes one student.
C9_AppendOnly ==
    [][ /\ StoreExtends(load_student_errors(fs[StorePath]),
                        load_student_errors(fs'[StorePath]))
        /\ run' = run =>
              /\ StoreExtends(student_totals, student_totals')
              /\ \A n, o \in DOMAIN student_totals :
                    (student_totals'[n] # student_totals[n] /\ o # n)
                        => student_totals'[o] = student_totals[o]
      ]_vars

\* C9 witness: a second run over the store the first run saved has saved
\* again; a student of the first store has its entries first, new ones after
C9_Witness ==
    /\ run = 2
    /\ pc = "done"
    /\ prev_store_file.kind = "json"
    /\ fs[StorePath] # prev_store_file
    /\ \E n \in DOMAIN LoadedStore :
          /\ Len(LoadedStore[n].history) >= 2
          /\ Len(load_student_errors(fs[StorePath])[n].history)
                > Len(LoadedStore[n].history)
    /\ \E n \in DOMAIN LoadedStore : student_totals[n] = LoadedStore[n]

\* C10: when the feedback file is read, merged or written, and after a
\* failure of one of these, the store file holds the complete in-memory store.
C10_SaveBeforeFeedback ==
    ( \/ pc \in {"merge", "done"}
      \/ pc = "raised" /\ exc \in {"KeyError", "OSError"} )
    => /\ saves = 1
       /\ fs[StorePath] = CompleteFile(student_totals)

\* C10 witness: the merge raised on a malformed row of the existing feedback
\* file, and the history recorded in this run is in the store file
C10_Witness ==
    /\ pc = "raised"
    /\ exc = "KeyError"
    /\ \E n \in NameChoices : calls[n] > 0
    /\ student_totals # LoadedStore
    /\ load_student_errors(fs[StorePath]) = student_totals


(***************************************************************************)
(* The feedback file after the merge of lines 436-454.                     *)
(***************************************************************************)
RowIds(rows) == {rows[i].submission_id : i \in DOMAIN rows}

\* C11: the feedback set written at the end of a run holds exactly one
\* record per submission_id of the existing file or of the staged records;
\* for a staged id it is the staged record, for an id of the existing file
\* only it is the existing record, unchanged.
C11_MergedFeedbackSet ==
    [][ (pc = "merge" /\ pc' = "done") =>
            LET existing == load_existing(fs[FeedbackPath])
                written == fs'[FeedbackPath].rows
            IN  /\ fs'[FeedbackPath].kind = "rows"
                /\ \A i, j \in DOMAIN written :
                       i # j => written[i].submission_id # written[j].submission_id
                /\ RowIds(written) = RowIds(existing) \cup RowIds(results_out)
                /\ \A i \in DOMAIN results_out : results_out[i] \in Range(written)
                /\ \A i \in DOMAIN existing :
                       existing[i].submission_id \notin RowIds(results_out)
                           => existing[i] \in Range(written) ]_vars

\* the row of s0 is kept, the row of s1 is replaced by the staged one
C11_Witness ==
    /\ pc = "done"
    /\ results_out = <<FeedbackRow("s1", "Alex Kim", "fb1")>>
    /\ fs[FeedbackPath] = RowsFile(<<FeedbackRow("s0", "Alex Kim", "fb0"),
                                     FeedbackRow("s1", "Alex Kim", "fb1")>>)

\* C12: merging the staged records into the written feedback set a second
\* time gives the feedback set that the first merge wrote.
C12_MergeIdempotent ==
    pc = "done" =>
        /\ fs[FeedbackPath].kind = "rows"
        /\ MergeRows(MergeRows(<<>>, fs[FeedbackPath].rows), results_out)
               = fs[FeedbackPath].rows

\* two staged records were merged into a file of two rows, one of them keyed
\* like a staged record
C12_Witness ==
    /\ pc = "done"
    /\ Len(results_out) = 2
    /\ fs[FeedbackPath].kind = "rows"
    /\ Len(fs[FeedbackPath].rows) = 3


(***************************************************************************)
(* What summarize_history is to return, stated without the counters.       *)
(***************************************************************************)
\* the occurrences of c in the history: entry and position
LifetimeOccurrences(hist, c) ==
    {p \in UNION {{<<i, j>> : j \in DOMAIN hist[i].error_codes} : i \in DOMAIN hist} :
        hist[p[1]].error_codes[p[2]] = c}

\* the entries among the last window entries that hold c
RecentEntries(hist, window, c) ==
    {i \in DOMAIN hist : i > Len(hist) - window /\ c \in Range(hist[i].error_codes)}

IsFrequent(hist, window, c) ==
    \/ Cardinality(LifetimeOccurrences(hist, c)) >= 2
    \/ Cardinality(RecentEntries(hist, window, c)) >= 2

CodeRank(c) == CHOOSE i \in DOMAIN CodeOrder : CodeOrder[i] = c

IsAscending(s) == \A i, j \in DOMAIN s : i < j => CodeRank(s[i]) < CodeRank(s[j])

HasHistory(student) == "history" \in DOMAIN student /\ student.history # <<>>

\* C13: overlap_codes is the ascending, duplicate-free list of exactly the
\* codes of now_codes that are frequent (lifetime count >= 2, or recent count
\* >= 2 over the last window entries); for an absent student or an empty
\* history the result is ("(no prior feedback)", []).
C13_OverlapCodes ==
    sh_pc = "returned" =>
        IF HasHistory(sh_student)
        THEN /\ IsAscending(sh_result.overlap_codes)
             /\ Range(sh_result.overlap_codes) =
                   {c \in Range(sh_now_codes) :
                       IsFrequent(sh_student.history, sh_window, c)}
             /\ Range(sh_result.overlap_codes) \subseteq Range(sh_now_codes)
             /\ Range(sh_result.overlap_codes) \subseteq
                   Frequent(sh_student.history, sh_window)
        ELSE sh_result = [history_block |-> NoPriorFeedback, overlap_codes |-> <<>>]

\* both codes of now_codes are frequent and come back in sorted order
C13_Witness ==
    /\ sh_pc = "returned"
    /\ sh_now_codes = <<"LOOP_BAD_RANGE", "FLOAT_ON_NONE">>
    /\ sh_result.overlap_codes = <<"FLOAT_ON_NONE", "LOOP_BAD_RANGE">>

\* C19: overlap_codes does not depend on window: the frequent set is the set
\* of codes with lifetime count >= 2, and a call that differs only in window
\* (zero and negative values included) returns the same overlap.
C19_WindowIrrelevant ==
    sh_pc = "returned" =>
        /\ HasHistory(sh_student) =>
              Frequent(sh_student.history, sh_window) =
                 {c \in BankCodes :
                     Cardinality(LifetimeOccurrences(sh_student.history, c)) >= 2}
        /\ \A w \in Windows :
              summarize_history(sh_student, sh_now_codes, sh_top_k, w).overlap_codes
                 = sh_result.overlap_codes

\* a code is counted in two recent entries under a window below 1
C19_Witness ==
    /\ sh_pc = "returned"
    /\ sh_window < 1
    /\ HasHistory(sh_student)
    /\ \E c \in Range(sh_result.overlap_codes) :
          RecentCount(sh_student.history, sh_window, c) >= 2


(***************************************************************************)
(* The output of condense.                                                 *)
(***************************************************************************)
\* C14: for every input string and every limit >= 0 the output of condense
\* has length <= limit; for every limit it holds no line break, and it is
\* the empty string for an empty or null input.
C14_CondenseBounded ==
    cd_pc = "returned" =>
        /\ cd_limit >= 0 => Len(cd_out) <= cd_limit
        /\ NL \notin Range(cd_out)
        /\ (cd_msg.none \/ cd_msg.chars = <<>>) => cd_out = <<>>

\* a message of two lines is cut to the limit
C14_Witness ==
    /\ cd_pc = "returned"
    /\ NL \in Range(cd_msg.chars)
    /\ cd_limit >= 2
    /\ Len(cd_out) = cd_limit
    /\ Len(cd_msg.chars) > Len(cd_out)

\* C14 as stated: the bound on the length for every integer limit
C14_AnyLimit ==
    cd_pc = "returned" =>
        /\ Len(cd_out) <= cd_limit
        /\ NL \notin Range(cd_out)
        /\ (cd_msg.none \/ cd_msg.chars = <<>>) => cd_out = <<>>


(***************************************************************************)
(* The calls of the text-generation service in a run.                      *)
(***************************************************************************)
\* the loop of lines 349-432 is over, or an exception ended the run
RunOver == pc \in {"save_open", "save_write", "save_replace", "merge", "done", "raised"}

\* C15: in a batch run the text-generation service is invoked exactly once
\* for each submission with failing rows, the submissions taken one at a time
\* in ascending order of submission id.
C15_OneCallEachInOrder ==
    /\ IsPrefix(llm_calls, SubmissionIds)
    /\ RunOver => llm_calls = SubmissionIds


(***************************************************************************)
(* The history over runs of the same input.                                *)
(***************************************************************************)
\* the entries of submission sid in the history of its student
EntriesOf(store, sid) ==
    IF name_map[sid] \in DOMAIN store
    THEN {i \in DOMAIN store[name_map[sid]].history :
             store[name_map[sid]].history[i].submission_id = sid}
    ELSE {}

\* no other submission of the student of sid has the code c
InOneSubmission(sid, c) ==
    \A other \in Range(SubmissionIds) :
        (other # sid /\ name_map[other] = name_map[sid])
            => c \notin Range(ErrorCodesOf(other))

\* C20: every run appends one history entry (and adds one to feedback_count)
\* for each submission whose response parsed, whatever the history holds;
\* after k runs a history holds k entries per submission, and a code of a
\* single submission is an overlap code from the third run on.
C20_RerunsAccumulate ==
    /\ \A i \in DOMAIN SubmissionIds :
          Cardinality(EntriesOf(student_totals, SubmissionIds[i]))
             = (run - 1) + (IF i < idx THEN 1 ELSE 0)
    /\ \A n \in DOMAIN student_totals :
          student_totals[n].feedback_count = Len(student_totals[n].history)
    /\ idx > 1 =>
          \A c \in Range(ErrorCodesOf(SubmissionIds[idx - 1])) :
             InOneSubmission(SubmissionIds[idx - 1], c)
                => (c \in Range(overlap_codes) <=> run >= 3)

\* the third run has processed s1: three entries of s1, its code an overlap code
C20_Witness ==
    /\ run = 3
    /\ idx = 2
    /\ name_map["s1"] = "Alex Kim"
    /\ name_map["s2"] = "Sam Lee"
    /\ Cardinality(EntriesOf(student_totals, "s1")) = 3
    /\ student_totals["Alex Kim"].feedback_count = 3
    /\ overlap_codes = <<"FLOAT_ON_NONE">>


(***************************************************************************)
(* The length of the student-code excerpt.                                 *)
(***************************************************************************)
\* C18: for every submission directory and every limit >= 0 the excerpt
\* returned by read_student_code_excerpt has length <= limit; for an absent
\* directory it is the empty string.
C18_ExcerptBounded ==
    ex_pc = "returned" =>
        /\ Len(ex_out) <= ex_limit
        /\ ex_sub_dir.kind # "dir" => ex_out = <<>>


(***************************************************************************)
(* The delivery of the feedback rows.                                      *)
(***************************************************************************)
RequestsOf(kind, k) ==
    {j \in DOMAIN dv_requests : dv_requests[j].kind = kind /\ dv_requests[j].row = k}

\* the users among those returned for row k whose name is the row's name
ExactMatches(k) ==
    {u \in dv_trace[k].users : u.name = strip(dv_rows[k].full_name)}

RowIsEmpty(k) ==
    strip(dv_rows[k].full_name) = <<>> \/ strip(dv_rows[k].feedback) = <<>>

\* C16: a comment is posted for a row only when the name search returned
\* exactly one user whose name equals the row's name; with zero or several
\* such users, or an empty name or feedback, the row is skipped (no comment,
\* no notification, not counted in sent); an error on a row does not stop
\* the rows that follow.
C16_ExactMatchOnly ==
    /\ Len(dv_trace) = (IF dv_pc \in {"loop", "done"} THEN dv_i - 1 ELSE 0)
    /\ dv_pc = "done" => Len(dv_trace) = Len(dv_rows)
    /\ dv_sent = Cardinality({k \in DOMAIN dv_trace : dv_trace[k].counted})
    /\ \A k \in DOMAIN dv_trace :
          /\ (RequestsOf("comment", k) # {} \/ dv_trace[k].counted)
                => /\ ~RowIsEmpty(k)
                   /\ dv_trace[k].searched /\ ~dv_trace[k].failed
                   /\ Cardinality(ExactMatches(k)) = 1
          /\ (RowIsEmpty(k) \/ Cardinality(ExactMatches(k)) # 1)
                => /\ RequestsOf("comment", k) = {}
                   /\ RequestsOf("message", k) = {}
                   /\ ~dv_trace[k].counted

\* the search of the first row failed, that of the second returned two users
\* of which one has the row's name: the second row got its comment
C16_Witness ==
    /\ dv_pc = "done"
    /\ Len(dv_trace) = 2
    /\ dv_trace[1].failed
    /\ Cardinality(dv_trace[2].users) = 2
    /\ RequestsOf("comment", 2) # {}
    /\ dv_sent = 1

\* C17: with the environment variable DRY_RUN not set the delivery runs in
\* dry-run mode, and in dry-run mode no comment request and no notification
\* request is sent for any row.
C17_DryRunByDefault ==
    dv_pc \in {"main", "loop", "done"} =>
        /\ dv_env = UnsetEnv => DRY_RUN
        /\ DRY_RUN => \A j \in DOMAIN dv_requests :
                         dv_requests[j].kind \notin {"comment", "message"}


(***************************************************************************)
(* The history that the summary of a submission is computed from.          *)
(***************************************************************************)
\* the entries that this run recorded for the student n before iteration i:
\* one for each earlier submission of n whose response parsed
RECURSIVE RecordedBefore(_, _)
RecordedBefore(n, i) ==
    IF i <= 1 THEN <<>>
    ELSE LET sid == SubmissionIds[i - 1]
         IN  IF name_map[sid] = n /\ resp[sid].kind = "json"
             THEN Append(RecordedBefore(n, i - 1),
                         [submission_id |-> sid,
                          error_codes |-> ErrorCodesOf(sid),
                          feedback |-> resp[sid].message])
             ELSE RecordedBefore(n, i - 1)

\* the history of n as loaded at the start of the run, then the entries of
\* the earlier submissions of this run
HistoryBefore(n, i) == HistoryOf(LoadedStore, n) \o RecordedBefore(n, i)

\* C21: the summary of a submission is computed from the in-memory store as
\* the run has updated it so far: it counts the loaded history of the
\* student (the empty name included) and the entries recorded in this run
\* for the student's earlier submissions whose response parsed, and never
\* the entry of the submission itself.
C21_SummaryFromMemory ==
    [][ (pc = "loop" /\ llm_calls' # llm_calls) =>
            LET sid == SubmissionIds[idx]
                n == name_map[sid]
                expected == summarize_history(
                                [full_name |-> n,
                                 feedback_count |-> Len(HistoryBefore(n, idx)),
                                 history |-> HistoryBefore(n, idx)],
                                ErrorCodesOf(sid), TOP_K, WINDOW)
            IN  /\ history_block' = expected.history_block
                /\ overlap_codes' = expected.overlap_codes
                /\ HistoryBefore(n, idx) # <<>> =>
                      history_block'.total = Len(HistoryOf(LoadedStore, n))
                                                + Len(RecordedBefore(n, idx)) ]_vars

\* the second run has summarised s2 of the student without a roster name:
\* the store held one entry at the start of the run, the summary counts two,
\* and the code of s1 is an overlap code because of the entry of this run
C21_Witness ==
    /\ run = 2
    /\ idx = 3
    /\ name_map["s1"] = ""
    /\ name_map["s2"] = ""
    /\ Len(HistoryOf(LoadedStore, "")) = 1
    /\ resp["s1"].kind = "json"
    /\ history_block.total = 2
    /\ overlap_codes = <<"FLOAT_ON_NONE">>

=============================================================================
